---- MODULE Spec2Model ----
(***************************************************************************)
(* Model of src/lib/shopify/fulfillment.js: the two asynchronous lookups   *)
(* getFulfillmentOrders and getFulfillments, each one outbound call to     *)
(* callShopifyAdmin followed by either the construction of a Success       *)
(* record or the classification of the caught error.                       *)
(*                                                                         *)
(* JavaScript values are tagged records (field t), so that null,           *)
(* undefined, numbers, strings, arrays and objects can be told apart and   *)
(* compared.  A string is the sequence of its pieces: every "(" , ")" and  *)
(* decimal digit is a piece of its own, and a run of other characters is   *)
(* one piece (the status pattern cannot tell such characters apart).       *)
(***************************************************************************)
EXTENDS Integers, Sequences, FiniteSets, TLC

\* ---------------------------------------------------------------- bounds
\* longest fulfillments array the collaborator returns
MaxFulfillments == 2
\* most fragments an error message is put together from
MaxFragments == 3
\* invocations that can be in flight at once
NumInvocations == 2

\* ------------------------------------------------------ JavaScript values
UNDEFINED == [t |-> "undefined"]
NULL == [t |-> "null"]
Num(n) == [t |-> "num", v |-> n]
Str(chars) == [t |-> "str", chars |-> chars]
Arr(items) == [t |-> "arr", items |-> items]
Obj(props) == [t |-> "obj", props |-> props]
NoProps == [k \in {} |-> UNDEFINED]

\* how a piece of code ends: with a value, or with a thrown value
Return(v) == [type |-> "return", value |-> v]
Throw(v) == [type |-> "throw", value |-> v]

\* ToBoolean, as used by || and by ?: on the values that occur here
Truthy(v) ==
  CASE v.t = "undefined" -> FALSE
    [] v.t = "null" -> FALSE
    [] v.t = "num" -> v.v # 0
    [] v.t = "str" -> v.chars # <<>>
    [] OTHER -> TRUE

\* a || b
Or(a, b) == IF Truthy(a) THEN a ELSE b

\* reading a property of null or undefined throws; of anything else it works
CanRead(v) == v.t \notin {"null", "undefined"}

\* v.k for a value whose properties can be read
Get(v, k) ==
  CASE v.t = "obj" -> IF k \in DOMAIN v.props THEN v.props[k] ELSE UNDEFINED
    [] v.t = "arr" -> IF k = "length" THEN Num(Len(v.items)) ELSE UNDEFINED
    [] OTHER -> UNDEFINED

\* the TypeError the engine throws for a property read of null or undefined
CannotRead(v, k) ==
  Obj([message |-> Str(<<"Cannot read properties of ", v.t, " ", "(",
                         "reading '", k, "'", ")">>)])

\* the TypeError the engine throws for a call of something that is no function
NotAFunction(what) == Obj([message |-> Str(<<what, " is not a function">>)])

\* ------------------------------------------- error.message.match(/\((\d+)\)/)
Digits == {"0", "1", "2", "3", "4", "5", "6", "7", "8", "9"}

DigitValue ==
  ("0" :> 0) @@ ("1" :> 1) @@ ("2" :> 2) @@ ("3" :> 3) @@ ("4" :> 4) @@
  ("5" :> 5) @@ ("6" :> 6) @@ ("7" :> 7) @@ ("8" :> 8) @@ ("9" :> 9)

\* \d+ is greedy: from position k it takes every digit there is; the result
\* is the position after the last digit taken
RECURSIVE DigitRunEnd(_, _)
DigitRunEnd(s, k) ==
  IF k <= Len(s) /\ s[k] \in Digits THEN DigitRunEnd(s, k + 1) ELSE k

\* \) after the digits: tried at position e, then with one digit given back at
\* a time while at least one digit is left; 0 when every try fails
RECURSIVE CloseParen(_, _, _)
CloseParen(s, i, e) ==
  IF e < i + 2 THEN 0
  ELSE IF e <= Len(s) /\ s[e] = ")" THEN e
  ELSE CloseParen(s, i, e - 1)

\* the pattern tried at position i: the position of its last character, or 0
MatchAt(s, i) ==
  IF s[i] = "(" THEN CloseParen(s, i, DigitRunEnd(s, i + 1)) ELSE 0

\* the regular expression is tried at every position from the left; the first
\* position where it matches gives the match array [whole, group 1]
RECURSIVE RegExpExec(_, _)
RegExpExec(s, i) ==
  IF i > Len(s) THEN NULL
  ELSE LET e == MatchAt(s, i)
       IN IF e # 0
          THEN Arr(<<Str(SubSeq(s, i, e)), Str(SubSeq(s, i + 1, e - 1))>>)
          ELSE RegExpExec(s, i + 1)

\* variant: the rightmost match instead of the leftmost
RECURSIVE RegExpExecFromRight(_, _)
RegExpExecFromRight(s, i) ==
  IF i < 1 THEN NULL
  ELSE LET e == MatchAt(s, i)
       IN IF e # 0
          THEN Arr(<<Str(SubSeq(s, i, e)), Str(SubSeq(s, i + 1, e - 1))>>)
          ELSE RegExpExecFromRight(s, i - 1)

StringMatchLast(s) == RegExpExecFromRight(s, Len(s))

StringMatch(s) == RegExpExec(s, 1)

\* parseInt(digits, 10) of a string of decimal digits
RECURSIVE ParseDigits(_, _)
ParseDigits(ds, acc) ==
  IF ds = <<>> THEN acc
  ELSE ParseDigits(Tail(ds), acc * 10 + DigitValue[Head(ds)])

parseInt(str) == Num(ParseDigits(str.chars, 0))

\* ------------------------------------------------ getFulfillmentOrders
SHOPIFY_ADMIN_AUTH_ERROR == "SHOPIFY_ADMIN_AUTH_ERROR"
SHOPIFY_FULFILLMENT_FETCH_ERROR == "SHOPIFY_FULFILLMENT_FETCH_ERROR"

\* variant: the ids in reverse order
ArrayMapIdReversed(a, what) ==
  IF a.t # "arr" THEN Throw(NotAFunction(what))
  ELSE LET n == Len(a.items)
           bad == {k \in 1..n : ~CanRead(a.items[k])}
       IN IF bad # {}
          THEN Throw(CannotRead(a.items[CHOOSE k \in bad : \A j \in bad : k <= j], "id"))
          ELSE Return(Arr([k \in 1..n |-> Get(a.items[n + 1 - k], "id")]))

\* a.map(f => f.id); `what` is the text of the callee, for the TypeError
ArrayMapId(a, what) ==
  IF a.t # "arr" THEN Throw(NotAFunction(what))
  ELSE LET bad == {k \in 1..Len(a.items) : ~CanRead(a.items[k])}
       IN IF bad # {}
          THEN Throw(CannotRead(a.items[CHOOSE k \in bad : \A j \in bad : k <= j], "id"))
          ELSE Return(Arr([k \in 1..Len(a.items) |-> Get(a.items[k], "id")]))

\* the path of the one outbound request
Path_getFulfillmentOrders(orderId) == <<"/orders/", orderId, "/fulfillments.json">>

\* variant: response.fulfillments without the default
FulfillmentsKept(f) == f

\* response.fulfillments || []
FulfillmentsOrEmpty(f) == Or(f, Arr(<<>>))

\* the try block after the await: the object literal, property by property
Try_getFulfillmentOrders(response) ==
  IF ~CanRead(response) THEN Throw(CannotRead(response, "fulfillments"))
  ELSE LET f == Get(response, "fulfillments")
           ids == IF Truthy(f) THEN ArrayMapId(f, "response.fulfillments.map")
                  ELSE Return(Arr(<<>>))
       IN IF ids.type = "throw" THEN ids
          ELSE Return([success |-> TRUE,
                       httpStatus |-> Num(200),
                       fulfillments |-> FulfillmentsOrEmpty(f),
                       count |-> IF Truthy(f) THEN Get(f, "length") ELSE Num(0),
                       fulfillmentIds |-> ids.value,
                       rawResponse |-> response])

\* variant: 403 forgotten
IsAuthStatusOnly401(httpStatus) == httpStatus = Num(401)

\* httpStatus === 401 || httpStatus === 403
IsAuthStatus_getFulfillmentOrders(httpStatus) ==
  httpStatus = Num(401) \/ httpStatus = Num(403)

\* variant: httpStatus without the default
StatusKept(httpStatus) == httpStatus

\* httpStatus || 500
StatusOr500_getFulfillmentOrders(httpStatus) == Or(httpStatus, Num(500))

\* statusMatch ? parseInt(statusMatch[1], 10) : null
StatusOf_getFulfillmentOrders(statusMatch) ==
  IF Truthy(statusMatch) THEN parseInt(statusMatch.items[2]) ELSE NULL

\* the catch block
Catch_getFulfillmentOrders(error) ==
  IF ~CanRead(error) THEN Throw(CannotRead(error, "message"))
  ELSE LET message == Get(error, "message")
       IN IF ~CanRead(message) THEN Throw(CannotRead(message, "match"))
          ELSE IF message.t # "str" THEN Throw(NotAFunction("error.message.match"))
          ELSE LET statusMatch == StringMatch(message.chars)
                   httpStatus == StatusOf_getFulfillmentOrders(statusMatch)
               IN IF IsAuthStatus_getFulfillmentOrders(httpStatus)
                  THEN Return([success |-> FALSE,
                               httpStatus |-> httpStatus,
                               error |-> SHOPIFY_ADMIN_AUTH_ERROR,
                               message |-> message,
                               fulfillments |-> Arr(<<>>),
                               count |-> Num(0),
                               fulfillmentIds |-> Arr(<<>>)])
                  ELSE Return([success |-> FALSE,
                               httpStatus |-> StatusOr500_getFulfillmentOrders(httpStatus),
                               error |-> SHOPIFY_FULFILLMENT_FETCH_ERROR,
                               message |-> message,
                               fulfillments |-> Arr(<<>>),
                               count |-> Num(0),
                               fulfillmentIds |-> Arr(<<>>)])

\* the function from the await on: `settled` is how callShopifyAdmin ended
Run_getFulfillmentOrders(settled) ==
  IF settled.type = "throw" THEN Catch_getFulfillmentOrders(settled.value)
  ELSE LET c == Try_getFulfillmentOrders(settled.value)
       IN IF c.type = "throw" THEN Catch_getFulfillmentOrders(c.value) ELSE c

\* ----------------------------------------------------- getFulfillments
Path_getFulfillments(orderId) == <<"/orders/", orderId, ".json">>

\* response.order || {}
OrderOrEmpty(o) == Or(o, Obj(NoProps))

Try_getFulfillments(response) ==
  IF ~CanRead(response) THEN Throw(CannotRead(response, "order"))
  ELSE LET order == OrderOrEmpty(Get(response, "order"))
           fulfillments == Or(Get(order, "fulfillments"), Arr(<<>>))
           ids == ArrayMapId(fulfillments, "fulfillments.map")
       IN IF ids.type = "throw" THEN ids
          ELSE Return([success |-> TRUE,
                       httpStatus |-> Num(200),
                       fulfillments |-> fulfillments,
                       count |-> Get(fulfillments, "length"),
                       fulfillmentIds |-> ids.value,
                       orderId |-> Get(order, "id"),
                       orderName |-> Get(order, "name"),
                       rawResponse |-> response])

\* variant: 404 taken for an authentication failure too
IsAuthStatusOr404(httpStatus) ==
  httpStatus = Num(401) \/ httpStatus = Num(403) \/ httpStatus = Num(404)

IsAuthStatus_getFulfillments(httpStatus) ==
  httpStatus = Num(401) \/ httpStatus = Num(403)

\* variant: 500 whatever was parsed
StatusAlways500(httpStatus) == Num(500)

StatusOr500_getFulfillments(httpStatus) == Or(httpStatus, Num(500))

StatusOf_getFulfillments(statusMatch) ==
  IF Truthy(statusMatch) THEN parseInt(statusMatch.items[2]) ELSE NULL

Catch_getFulfillments(error) ==
  IF ~CanRead(error) THEN Throw(CannotRead(error, "message"))
  ELSE LET message == Get(error, "message")
       IN IF ~CanRead(message) THEN Throw(CannotRead(message, "match"))
          ELSE IF message.t # "str" THEN Throw(NotAFunction("error.message.match"))
          ELSE LET statusMatch == StringMatch(message.chars)
                   httpStatus == StatusOf_getFulfillments(statusMatch)
               IN IF IsAuthStatus_getFulfillments(httpStatus)
                  THEN Return([success |-> FALSE,
                               httpStatus |-> httpStatus,
                               error |-> SHOPIFY_ADMIN_AUTH_ERROR,
                               message |-> message,
                               fulfillments |-> Arr(<<>>),
                               count |-> Num(0),
                               fulfillmentIds |-> Arr(<<>>)])
                  ELSE Return([success |-> FALSE,
                               httpStatus |-> StatusOr500_getFulfillments(httpStatus),
                               error |-> SHOPIFY_FULFILLMENT_FETCH_ERROR,
                               message |-> message,
                               fulfillments |-> Arr(<<>>),
                               count |-> Num(0),
                               fulfillmentIds |-> Arr(<<>>)])

Run_getFulfillments(settled) ==
  IF settled.type = "throw" THEN Catch_getFulfillments(settled.value)
  ELSE LET c == Try_getFulfillments(settled.value)
       IN IF c.type = "throw" THEN Catch_getFulfillments(c.value) ELSE c

\* ------------------------------------------- what callShopifyAdmin may do
OrderIds == {123, 456}

\* elements of a fulfillments array: fulfillments with an id, one without,
\* and a null element (a malformed body)
FulfillmentObjects ==
  {Obj([id |-> Num(1)]), Obj([id |-> Num(2)]), Obj([status |-> Str(<<"success">>)])}
Elements == FulfillmentObjects \cup {NULL}

FulfillmentLists == UNION {[1..n -> Elements] : n \in 0..MaxFulfillments}

\* values of a fulfillments field that is there: arrays, null, and an object
\* that is no array (a malformed body)
FulfillmentsValues ==
  {Arr(l) : l \in FulfillmentLists} \cup {NULL, Obj(NoProps)}

\* values of an order field that is there
Orders ==
  {Obj([id |-> Num(9001), name |-> Str(<<"#1001">>), fulfillments |-> f]) :
     f \in FulfillmentsValues}
  \cup {Obj([id |-> Num(9001), name |-> Str(<<"#1001">>)]), Obj(NoProps), NULL}

\* values callShopifyAdmin may resolve with
Responses ==
  {Obj([fulfillments |-> f]) : f \in FulfillmentsValues}
  \cup {Obj([order |-> o]) : o \in Orders}
  \cup {Obj(NoProps), NULL, UNDEFINED}

\* pieces error messages are put together from
Fragments ==
  { <<"(", "4", "0", "1", ")">>, <<"(", "4", "0", "3", ")">>,
    <<"(", "4", "0", "4", ")">>, <<"(", "5", "0", "0", ")">>,
    <<"(", "0", ")">>, <<"(", "abc", ")">>, <<"(", ")">>,
    <<"(", "4", "2">>, <<")">>, <<"network timeout">> }

RECURSIVE Concat(_)
Concat(fs) == IF fs = <<>> THEN <<>> ELSE Head(fs) \o Concat(Tail(fs))

Messages == {Concat(fs) : fs \in UNION {[1..n -> Fragments] : n \in 0..MaxFragments}}

\* values callShopifyAdmin may reject with: Errors with a message, and values
\* that carry no message text (a thrown string, undefined, a plain object)
Rejections ==
  {Obj([message |-> Str(m)]) : m \in Messages}
  \cup {Str(<<"boom">>), UNDEFINED, Obj([code |-> Num(401)])}

\* a few outcomes of each kind, for several invocations in flight at once
SampleResponses ==
  { Obj([fulfillments |-> Arr(<<Obj([id |-> Num(1)]), Obj([id |-> Num(2)])>>)]),
    Obj([order |-> Obj([id |-> Num(9001), name |-> Str(<<"#1001">>),
                        fulfillments |-> Arr(<<Obj([id |-> Num(2)])>>)])]),
    Obj(NoProps),
    NULL }
SampleRejections ==
  { Obj([message |-> Str(<<"Shopify Admin API error ", "(", "4", "0", "1", ")", ": Invalid API key">>)]),
    Obj([message |-> Str(<<"Shopify Admin API error ", "(", "4", "0", "4", ")", ": Not Found">>)]),
    Obj([message |-> Str(<<"network timeout">>)]),
    UNDEFINED }

\* ----------------------------------------------------------------- state
VARIABLES
  pc,       \* per invocation: "idle", "awaiting", "settled", "returned", "threw"
  fn,       \* per invocation: the function called
  orderId,  \* per invocation: its argument
  sent,     \* per invocation: the paths it has passed to callShopifyAdmin
  settled,  \* per invocation: how its callShopifyAdmin promise ended
  result    \* per invocation: how the invocation ended

vars == <<pc, fn, orderId, sent, settled, result>>

Invocations == 1..NumInvocations
PENDING == [type |-> "pending"]

Init ==
  /\ pc = [i \in Invocations |-> "idle"]
  /\ fn = [i \in Invocations |-> "none"]
  /\ orderId = [i \in Invocations |-> 0]
  /\ sent = [i \in Invocations |-> <<>>]
  /\ settled = [i \in Invocations |-> PENDING]
  /\ result = [i \in Invocations |-> PENDING]

\* the call, up to the await: the one request goes out
Call_getFulfillmentOrders(i, o) ==
  /\ pc[i] = "idle"
  /\ pc' = [pc EXCEPT ![i] = "awaiting"]
  /\ fn' = [fn EXCEPT ![i] = "getFulfillmentOrders"]
  /\ orderId' = [orderId EXCEPT ![i] = o]
  /\ sent' = [sent EXCEPT ![i] = Append(@, Path_getFulfillmentOrders(o))]
  /\ UNCHANGED <<settled, result>>

Call_getFulfillments(i, o) ==
  /\ pc[i] = "idle"
  /\ pc' = [pc EXCEPT ![i] = "awaiting"]
  /\ fn' = [fn EXCEPT ![i] = "getFulfillments"]
  /\ orderId' = [orderId EXCEPT ![i] = o]
  /\ sent' = [sent EXCEPT ![i] = Append(@, Path_getFulfillments(o))]
  /\ UNCHANGED <<settled, result>>

\* callShopifyAdmin's promise is fulfilled with a response
Resolve(i, response) ==
  /\ pc[i] = "awaiting"
  /\ pc' = [pc EXCEPT ![i] = "settled"]
  /\ settled' = [settled EXCEPT ![i] = Return(response)]
  /\ UNCHANGED <<fn, orderId, sent, result>>

\* callShopifyAdmin's promise is rejected with a thrown value
Reject(i, error) ==
  /\ pc[i] = "awaiting"
  /\ pc' = [pc EXCEPT ![i] = "settled"]
  /\ settled' = [settled EXCEPT ![i] = Throw(error)]
  /\ UNCHANGED <<fn, orderId, sent, result>>

\* variant: the response kept in one place shared by all invocations, so
\* that an invocation reads what the first settled promise left there
OutcomeOfFirstSettled(i) ==
  Run_getFulfillments(
    settled[CHOOSE j \in Invocations :
              /\ settled[j] # PENDING
              /\ \A k \in Invocations : settled[k] # PENDING => j <= k])

\* how invocation i ends, given how its own promise ended
Outcome_getFulfillmentOrders(i) == Run_getFulfillmentOrders(settled[i])
Outcome_getFulfillments(i) == Run_getFulfillments(settled[i])

\* the function resumes after the await and runs to its end
Resume_getFulfillmentOrders(i) ==
  /\ pc[i] = "settled"
  /\ fn[i] = "getFulfillmentOrders"
  /\ result' = [result EXCEPT ![i] = Outcome_getFulfillmentOrders(i)]
  /\ pc' = [pc EXCEPT ![i] = IF result'[i].type = "return" THEN "returned" ELSE "threw"]
  /\ UNCHANGED <<fn, orderId, sent, settled>>

Resume_getFulfillments(i) ==
  /\ pc[i] = "settled"
  /\ fn[i] = "getFulfillments"
  /\ result' = [result EXCEPT ![i] = Outcome_getFulfillments(i)]
  /\ pc' = [pc EXCEPT ![i] = IF result'[i].type = "return" THEN "returned" ELSE "threw"]
  /\ UNCHANGED <<fn, orderId, sent, settled>>

\* one invocation, every response and every rejection
Next ==
  \/ \E o \in OrderIds : Call_getFulfillmentOrders(1, o)
  \/ \E o \in OrderIds : Call_getFulfillments(1, o)
  \/ \E r \in Responses : Resolve(1, r)
  \/ \E e \in Rejections : Reject(1, e)
  \/ Resume_getFulfillmentOrders(1)
  \/ Resume_getFulfillments(1)

Spec == Init /\ [][Next]_vars

\* several invocations in flight, their promises settling in any order
NextConcurrent ==
  \E i \in Invocations :
    \/ \E o \in OrderIds : Call_getFulfillmentOrders(i, o)
    \/ \E o \in OrderIds : Call_getFulfillments(i, o)
    \/ \E r \in SampleResponses : Resolve(i, r)
    \/ \E e \in SampleRejections : Reject(i, e)
    \/ Resume_getFulfillmentOrders(i)
    \/ Resume_getFulfillments(i)

SpecConcurrent == Init /\ [][NextConcurrent]_vars

\* ===================================================================
\* Vocabulary of the properties, stated without the operators above
\* ===================================================================
Ended(i) == pc[i] \in {"returned", "threw"}

\* invocation i's request failed with a value that carries a message text
FailedWithMessage(i) ==
  /\ settled[i].type = "throw"
  /\ settled[i].value.t = "obj"
  /\ "message" \in DOMAIN settled[i].value.props
  /\ settled[i].value.props.message.t = "str"

MessageOf(i) == settled[i].value.props.message.chars

\* the places <<i, j>> where s holds "(" at i, ")" at j and only digits, at
\* least one, between them
ParenNumbers(s) ==
  {p \in {i \in 1..Len(s) : s[i] = "("} \X {j \in 1..Len(s) : s[j] = ")"} :
     /\ p[2] > p[1] + 1
     /\ \A k \in (p[1] + 1)..(p[2] - 1) : s[k] \in Digits}

FirstParenNumber(s) ==
  CHOOSE p \in ParenNumbers(s) : \A q \in ParenNumbers(s) : p[1] <= q[1]

RECURSIVE Pow10(_)
Pow10(n) == IF n = 0 THEN 1 ELSE 10 * Pow10(n - 1)

RECURSIVE DecimalSum(_, _, _)
DecimalSum(s, k, j) ==
  IF k > j THEN 0 ELSE DigitValue[s[k]] * Pow10(j - k) + DecimalSum(s, k + 1, j)

\* the number the first parenthesized integer of s denotes
FirstCode(s) ==
  LET p == FirstParenNumber(s) IN DecimalSum(s, p[1] + 1, p[2] - 1)

\* invocation i's request failed with a message whose first parenthesized
\* integer is c
FailedWithCode(i, c) ==
  /\ FailedWithMessage(i)
  /\ ParenNumbers(MessageOf(i)) # {}
  /\ FirstCode(MessageOf(i)) = c

StatusCodes == {0, 42, 401, 403, 404, 500}

IsFailure(i) ==
  /\ pc[i] = "returned"
  /\ result[i].type = "return"
  /\ result[i].value.success = FALSE

IsSuccess(i) ==
  /\ pc[i] = "returned"
  /\ result[i].type = "return"
  /\ result[i].value.success = TRUE

\* the fulfillments value invocation i's response carries: at
\* response.fulfillments for getFulfillmentOrders, at
\* response.order.fulfillments for getFulfillments
CarriesFulfillments(i) ==
  /\ settled[i].type = "return"
  /\ settled[i].value.t = "obj"
  /\ IF fn[i] = "getFulfillmentOrders"
     THEN "fulfillments" \in DOMAIN settled[i].value.props
     ELSE /\ "order" \in DOMAIN settled[i].value.props
          /\ settled[i].value.props.order.t = "obj"
          /\ "fulfillments" \in DOMAIN settled[i].value.props.order.props

CarriedFulfillments(i) ==
  IF fn[i] = "getFulfillmentOrders"
  THEN settled[i].value.props.fulfillments
  ELSE settled[i].value.props.order.props.fulfillments

\* an array of fulfillment objects
IsFulfillmentArray(a) ==
  a.t = "arr" /\ \A k \in 1..Len(a.items) : a.items[k].t = "obj"

IdOf(f) == IF "id" \in DOMAIN f.props THEN f.props.id ELSE UNDEFINED

\* invocation i's response is an object without the fulfillments field: for
\* getFulfillments, without the order object or with an order without it
LacksFulfillments(i) ==
  /\ settled[i].type = "return"
  /\ settled[i].value.t = "obj"
  /\ IF fn[i] = "getFulfillmentOrders"
     THEN "fulfillments" \notin DOMAIN settled[i].value.props
     ELSE \/ "order" \notin DOMAIN settled[i].value.props
          \/ settled[i].value.props.order = NULL
          \/ /\ settled[i].value.props.order.t = "obj"
             /\ "fulfillments" \notin DOMAIN settled[i].value.props.order.props

OwnPath(i) ==
  IF fn[i] = "getFulfillmentOrders"
  THEN <<"/orders/", orderId[i], "/fulfillments.json">>
  ELSE <<"/orders/", orderId[i], ".json">>

\* ===================================================================
\* Properties
\* ===================================================================

\* C1: every invocation of either function ends by returning a Result record,
\* Success or Failure, whatever callShopifyAdmin returned or threw; no
\* exception escapes to the caller.
C1_NoExceptionEscapes ==
  \A i \in Invocations :
    Ended(i) =>
      /\ pc[i] = "returned"
      /\ result[i].type = "return"
      /\ result[i].value.success \in BOOLEAN

\* C2 (as stated): a failure whose message carries a parenthesized code other
\* than 401 and 403, the code 0 included, gives a Failure with
\* SHOPIFY_FULFILLMENT_FETCH_ERROR and httpStatus equal to the parsed code.
C2_OtherCodeKept ==
  \A i \in Invocations : \A c \in StatusCodes \ {401, 403} :
    (Ended(i) /\ FailedWithCode(i, c)) =>
      /\ IsFailure(i)
      /\ result[i].value.error = SHOPIFY_FULFILLMENT_FETCH_ERROR
      /\ result[i].value.httpStatus = Num(c)

\* C2 (amended): a failure whose message carries a parenthesized code other
\* than 401 and 403 gives a Failure with SHOPIFY_FULFILLMENT_FETCH_ERROR; its
\* httpStatus is the parsed code when that code is not 0, and 500 when it is 0.
C2_OtherCodeKeptUnlessZero ==
  \A i \in Invocations : \A c \in StatusCodes \ {401, 403} :
    (Ended(i) /\ FailedWithCode(i, c)) =>
      /\ IsFailure(i)
      /\ result[i].value.error = SHOPIFY_FULFILLMENT_FETCH_ERROR
      /\ result[i].value.httpStatus = IF c = 0 THEN Num(500) ELSE Num(c)

C2_Witness ==
  /\ fn[1] = "getFulfillments"
  /\ FailedWithCode(1, 404)
  /\ IsFailure(1)
  /\ result[1].value.httpStatus = Num(404)

\* C3: a failure whose message carries the parenthesized code 401 or 403 gives
\* the Failure {success: false, httpStatus: the code, error:
\* SHOPIFY_ADMIN_AUTH_ERROR, message: the original message, fulfillments: [],
\* count: 0, fulfillmentIds: []}.
C3_AuthFailure ==
  \A i \in Invocations : \A c \in {401, 403} :
    (Ended(i) /\ FailedWithCode(i, c)) =>
      /\ pc[i] = "returned"
      /\ result[i] = Return([success |-> FALSE,
                             httpStatus |-> Num(c),
                             error |-> SHOPIFY_ADMIN_AUTH_ERROR,
                             message |-> Str(MessageOf(i)),
                             fulfillments |-> Arr(<<>>),
                             count |-> Num(0),
                             fulfillmentIds |-> Arr(<<>>)])

C3_Witness ==
  /\ fn[1] = "getFulfillmentOrders"
  /\ FailedWithCode(1, 403)
  /\ IsFailure(1)
  /\ result[1].value.error = SHOPIFY_ADMIN_AUTH_ERROR

\* C4: a failure whose message holds no parenthesized number gives a Failure
\* with httpStatus 500, SHOPIFY_FULFILLMENT_FETCH_ERROR and the original
\* message.
C4_NoCodeIs500 ==
  \A i \in Invocations :
    (Ended(i) /\ FailedWithMessage(i) /\ ParenNumbers(MessageOf(i)) = {}) =>
      /\ IsFailure(i)
      /\ result[i].value.httpStatus = Num(500)
      /\ result[i].value.error = SHOPIFY_FULFILLMENT_FETCH_ERROR
      /\ result[i].value.message = Str(MessageOf(i))

C4_Witness ==
  /\ fn[1] = "getFulfillmentOrders"
  /\ FailedWithMessage(1)
  /\ MessageOf(1) = <<"network timeout">>
  /\ IsFailure(1)
  /\ result[1].value.httpStatus = Num(500)

\* C5: a response carrying an array of N fulfillments, N = 0 included, gives
\* success = true, httpStatus = 200, count = N and fulfillmentIds of length N
\* whose k-th element is the id of the k-th fulfillment.
C5_CountAndIds ==
  \A i \in Invocations :
    (Ended(i) /\ CarriesFulfillments(i) /\ IsFulfillmentArray(CarriedFulfillments(i))) =>
      LET a == CarriedFulfillments(i).items
      IN /\ IsSuccess(i)
         /\ result[i].value.httpStatus = Num(200)
         /\ result[i].value.count = Num(Len(a))
         /\ result[i].value.fulfillments = Arr(a)
         /\ result[i].value.fulfillmentIds.t = "arr"
         /\ Len(result[i].value.fulfillmentIds.items) = Len(a)
         /\ \A k \in 1..Len(a) : result[i].value.fulfillmentIds.items[k] = IdOf(a[k])

C5_Witness ==
  /\ fn[1] = "getFulfillments"
  /\ CarriesFulfillments(1)
  /\ CarriedFulfillments(1) = Arr(<<Obj([id |-> Num(1)]), Obj([id |-> Num(2)])>>)
  /\ IsSuccess(1)
  /\ result[1].value.fulfillmentIds = Arr(<<Num(1), Num(2)>>)

\* C6: a response without the fulfillments field (for getFulfillments: without
\* the order object, or with an order without the field) gives a Success with
\* fulfillments = [], count = 0 and fulfillmentIds = [], never a Failure.
C6_MissingFieldIsEmptySuccess ==
  \A i \in Invocations :
    (Ended(i) /\ LacksFulfillments(i)) =>
      /\ IsSuccess(i)
      /\ result[i].value.fulfillments = Arr(<<>>)
      /\ result[i].value.count = Num(0)
      /\ result[i].value.fulfillmentIds = Arr(<<>>)

C6_Witness ==
  /\ fn[1] = "getFulfillmentOrders"
  /\ settled[1] = Return(Obj(NoProps))
  /\ IsSuccess(1)
  /\ result[1].value.count = Num(0)

\* C7: every invocation issues exactly one request, to its own path, and once
\* the request has returned or failed it ends in exactly one of Success and
\* Failure, with no further request.
C7_OneRequestThenResult ==
  \A i \in Invocations :
    /\ pc[i] # "idle" => sent[i] = <<OwnPath(i)>>
    /\ Ended(i) => (IsSuccess(i) \/ IsFailure(i))

C9_FirstCodeDecides ==
  \A i \in Invocations :
    (Ended(i) /\ FailedWithMessage(i) /\ ParenNumbers(MessageOf(i)) # {}) =>
      LET c == FirstCode(MessageOf(i))
      IN /\ IsFailure(i)
         /\ result[i].value.error =
              IF c \in {401, 403} THEN SHOPIFY_ADMIN_AUTH_ERROR
              ELSE SHOPIFY_FULFILLMENT_FETCH_ERROR
         /\ result[i].value.httpStatus = IF c = 0 THEN Num(500) ELSE Num(c)

C9_Witness ==
  /\ FailedWithMessage(1)
  /\ MessageOf(1) = <<"(", "abc", ")", "(", "5", "0", "0", ")", "(", "4", "0", "1", ")">>
  /\ IsFailure(1)
  /\ result[1].value.error = SHOPIFY_FULFILLMENT_FETCH_ERROR
  /\ result[1].value.httpStatus = Num(500)

\* C10: in every Failure, error is SHOPIFY_ADMIN_AUTH_ERROR exactly when
\* httpStatus is 401 or 403, and the httpStatus of a
\* SHOPIFY_FULFILLMENT_FETCH_ERROR is a non-zero integer, never null.
C10_ErrorMatchesStatus ==
  \A i \in Invocations :
    IsFailure(i) =>
      /\ result[i].value.error \in {SHOPIFY_ADMIN_AUTH_ERROR, SHOPIFY_FULFILLMENT_FETCH_ERROR}
      /\ result[i].value.error = SHOPIFY_ADMIN_AUTH_ERROR
           <=> result[i].value.httpStatus \in {Num(401), Num(403)}
      /\ result[i].value.httpStatus.t = "num"
      /\ result[i].value.httpStatus.v # 0

C10_Witness ==
  /\ IsFailure(1)
  /\ settled[1].type = "return"
  /\ result[1].value.error = SHOPIFY_FULFILLMENT_FETCH_ERROR
  /\ result[1].value.httpStatus = Num(500)

====
